---- MODULE Spec2Model ----
(***************************************************************************)
(* A model of the Errbot plugin Merge (src/merge.py): the merge command    *)
(* and the git commands it runs in a project's working copy, the           *)
(* provisioning of the working copies at activation, and the parsing of    *)
(* the branch author.                                                      *)
(*                                                                         *)
(* Git itself is not part of the repository; each git command is modelled  *)
(* by its documented effect on four pieces of state (the branches on       *)
(* origin, the remote-tracking refs of the working copy, its local develop *)
(* branch and the commit graph), and by its exit status: a command exits   *)
(* non-zero when git must refuse it, and may exit non-zero for reasons the *)
(* model does not see (network, locks, conflicts).                         *)
(***************************************************************************)
EXTENDS Integers, Sequences, FiniteSets, TLC

VARIABLES
    \* ---- the remote and the working copy of one project
    origin,        \* branch name -> commit on the remote (NoCommit: no such branch)
    tracking,      \* branch name -> commit of refs/remotes/origin/<name>
    localDevelop,  \* commit of the local branch develop (NoCommit: no such branch)
    commits,       \* the commit graph: commit id -> [parents, author, merges]
    conflicted,    \* the working copy was left in the middle of a conflicted merge
    \* ---- the merge requests (one call of Merge.merge each)
    pc,            \* request -> "idle" | "run" | "done"
    ip,            \* request -> index in Program of the command to run next
    args,          \* request -> branch_name
    typedName,     \* request -> the project name as typed
    author,        \* request -> the value git_get_branch_author returned
    stdout,        \* request -> the stdout captured from for-each-ref
    outcome,       \* request -> "none" | "red" | "green" | "raised"
    card,          \* request -> the card sent by send_card
    exc,           \* request -> the exception raised (type, message)
    calls,         \* request -> the git commands invoked, in order, with their exit
    touched,       \* request -> the state its own commands changed
    \* ---- git_get_branch_author on its own
    raw,           \* the stdout of the author query
    parsed,        \* what git_get_branch_author made of it
    \* ---- activation and provisioning
    config,        \* self.config: [REPOS_ROOT, projects]
    fs,            \* the directories that exist
    apc,           \* where activate is
    idx,           \* the project setup_repos is at
    runs,          \* how many times activate has been called
    cloneLog,      \* the clones invoked: [run, name, ok]
    mkdirLog,      \* the calls of os.makedirs: [run, err]
    ended,         \* how each call of activate ended
    roots,         \* the project roots merge computed: [typed, root]
    \* ---- check_configuration on its own
    given,         \* the configuration the administrator submitted
    configuration, \* the same object as check_configuration leaves it
    verdict,       \* how check_configuration ended: [status, exc]
    \* ---- the other users of the remote
    envPushes      \* how many commits they have pushed

repoVars == <<origin, tracking, localDevelop, commits, conflicted>>

requestVars == <<pc, ip, args, typedName, author, stdout, outcome, card, exc, calls,
                 touched>>

authorVars == <<raw, parsed>>

provisionVars == <<config, fs, apc, idx, runs, cloneLog, mkdirLog, ended, roots>>

configVars == <<given, configuration, verdict>>

envVars == <<envPushes>>

vars == <<repoVars, requestVars, authorVars, provisionVars, configVars, envVars>>

-----------------------------------------------------------------------------
(* Names and values *)

Requests == {1, 2}

Branches == {"master", "develop", "f", "g"}

\* 'forbidden_branches': ['master', 'develop']
forbidden_branches == <<"master", "develop">>

NoCommit == 0

Q == "\""
NL == "\n"
SP == " "
Whitespace == {SP, NL}

Dev == [name |-> "Dev", email |-> "<dev@example.com>"]
Alice == [name |-> "Alice", email |-> "<alice@example.com>"]
Bot == [name |-> "Bot", email |-> "<bot@example.com>"]
Carol == [name |-> "Carol", email |-> "<carol@example.com>"]
Identities == {Dev, Alice, Carol, Bot}

NoCard == [color |-> "none", summary |-> <<>>, body |-> <<>>, fields |-> <<>>]
NoExc == [type |-> "", msg |-> <<>>]

Range(s) == {s[i] : i \in DOMAIN s}

-----------------------------------------------------------------------------
(* The commit graph *)

RECURSIVE AncestorsIn(_, _)
AncestorsIn(graph, c) ==
    IF c = NoCommit THEN {}
    ELSE {c} \cup UNION {AncestorsIn(graph, p) : p \in Range(graph[c].parents)}

\* The commits reachable from c, c included.
Ancestors(c) == AncestorsIn(commits, c)

Contains(tip, c) == c # NoCommit /\ c \in Ancestors(tip)

-----------------------------------------------------------------------------
(* Merge.validate_branch, the membership test *)

\* The card with the two branches exchanged.
GreenCardSwapped(project_name, branch_name) ==
    [color |-> "green",
     summary |-> <<"I was able to complete the", project_name, "merge for you.">>,
     body |-> <<>>,
     fields |-> <<<<"Receiver Branch", branch_name>>, <<"Giver Branch", "develop">>>>]

\* The test against the first forbidden branch only.
IsForbiddenFirst(branch_name) == branch_name = forbidden_branches[1]

IsForbidden(branch_name) == branch_name \in Range(forbidden_branches)

(* The argument vectors, in the order the code runs them *)

ValidateArgv == <<"fetch", "rev-parse">>

AuthorArgv == <<"fetch", "for-each-ref">>

\* The merge sequence without the amend of the author.
MergeArgvNoAmend == <<"fetch", "checkout", "merge", "push">>

\* The merge commands without the checkout that resets develop.
MergeArgvNoCheckout == <<"fetch", "merge", "amend", "push">>

MergeArgv == <<"fetch", "checkout", "merge", "amend", "push">>

PushArgv == <<"push">>

DeleteArgv == <<"delete">>

Tag(phase, argv) == [i \in 1..Len(argv) |-> [phase |-> phase, cmd |-> argv[i]]]

\* Merge.merge: validate_branch, git_get_branch_author, git_merge_branch_to_develop,
\* git_push_develop_to_origin, git_delete_branch.
Program ==
    Tag("validate", ValidateArgv) \o Tag("author", AuthorArgv)
        \o Tag("merge", MergeArgv) \o Tag("push", PushArgv) \o Tag("delete", DeleteArgv)

Mutating == {"checkout", "merge", "amend", "push", "delete"}

-----------------------------------------------------------------------------
(* Merge.git_get_branch_author: str.strip, str.split and the assertion *)

RECURSIVE LStrip(_)
LStrip(s) == IF s # <<>> /\ Head(s) \in Whitespace THEN LStrip(Tail(s)) ELSE s

RECURSIVE RStrip(_)
RStrip(s) ==
    IF s # <<>> /\ s[Len(s)] \in Whitespace THEN RStrip(SubSeq(s, 1, Len(s) - 1)) ELSE s

\* .stdout.strip()
Strip(s) == LStrip(RStrip(s))

\* len(author.split('\n'))
SplitCount(s) == Cardinality({i \in DOMAIN s : s[i] = NL}) + 1

\* The assertion switched off.
AuthorAssertionOff(a) == TRUE

\* The assertion without its test of the length.
AuthorAssertionOneLine(a) == SplitCount(a) = 1

\* assert len(author.split('\n')) == 1 and len(author)
AuthorAssertion(a) == SplitCount(a) = 1 /\ Len(a) # 0

\* git_get_branch_author from the captured stdout on: strip, assert, return.
git_get_branch_author(out) ==
    LET a == Strip(out)
    IN IF AuthorAssertion(a)
          THEN [status |-> "returned", value |-> a]
          ELSE [status |-> "AssertionError", value |-> <<>>]

NoResult == [status |-> "", value |-> <<>>]

\* git for-each-ref --format="%(authorname) %(authoremail)" refs/remotes/origin/<branch>,
\* with stderr combined into stdout: a line per matching ref, after whatever git
\* wrote to stderr.
ForEachRefStdout(refs, graph, branch_name, warning) ==
    warning \o
    (IF refs[branch_name] # NoCommit
        THEN LET a == graph[refs[branch_name]].author
             IN <<Q, a.name, SP, a.email, Q, NL>>
        ELSE <<>>)

Warnings == {<<>>, <<"warning:", SP, "x", NL>>}

NoIdent == [name |-> "", email |-> ""]

\* git commit --author=<author>: git reads "Name <email>" out of the value, dropping
\* the quotes around it; anything else names no identity and git refuses it.
IdentOf(a) ==
    IF Len(a) = 5 /\ a[1] = Q /\ a[5] = Q /\ a[3] = SP
          /\ [name |-> a[2], email |-> a[4]] \in Identities
        THEN [name |-> a[2], email |-> a[4]]
        ELSE NoIdent

-----------------------------------------------------------------------------
(* Paths, project names and clone URLs: strings, as sequences of characters *)

SEP == "/"

\* str.lower, the type of --project-name
LowerChar(c) == IF c = "P" THEN "p" ELSE IF c = "Q" THEN "q" ELSE c

Lower(str) == [i \in DOMAIN str |-> LowerChar(str[i])]

\* os.path.join(a, b)
PathJoin(a, b) ==
    IF b # <<>> /\ Head(b) = SEP THEN b
    ELSE IF a = <<>> \/ a[Len(a)] = SEP THEN a \o b
    ELSE a \o <<SEP>> \o b

\* The directory a path names: repeated and trailing separators do not count.
RECURSIVE Canon(_)
Canon(path) ==
    IF Len(path) <= 1 THEN path
    ELSE LET front == SubSeq(path, 1, Len(path) - 1)
             last == path[Len(path)]
         IN IF last = SEP THEN Canon(front)
            ELSE IF front[Len(front)] = SEP /\ Canon(front) # <<SEP>>
                THEN Canon(front) \o <<SEP, last>>
            ELSE Canon(front) \o <<last>>

\* os.path.exists
Exists(dirs, path) == Canon(path) \in dirs

\* The directory git clone <url> creates in its cwd: the last component of the
\* URL, without a trailing ".git" (here the one character "G").
RECURSIVE LastComponent(_)
LastComponent(str) ==
    IF str = <<>> \/ str[Len(str)] \in {SEP, ":"} THEN <<>>
    ELSE LastComponent(SubSeq(str, 1, Len(str) - 1)) \o <<str[Len(str)]>>

Humanish(url) ==
    LET u == IF url # <<>> /\ url[Len(url)] = "G" THEN SubSeq(url, 1, Len(url) - 1)
             ELSE url
    IN LastComponent(u)

CloneTarget(cwd, url) == Canon(PathJoin(cwd, Humanish(url)))

\* Merge.get_project_root: self.config['REPOS_ROOT'] + project_name
get_project_root(root, project_name) == root \o project_name

-----------------------------------------------------------------------------
(* Control: what follows a command *)

Cmd(r) == Program[ip[r]]

\* project_root = self.get_project_root(project_name), the cwd of every command;
\* project_name is the typed name after type=str.lower
ProjectRoot(r) == get_project_root(config.REPOS_ROOT, Lower(typedName[r]))

\* The cwd is a working copy: a directory other than REPOS_ROOT itself (the only
\* directories below REPOS_ROOT are the clones setup_repos made).
IsRepo(dirs, path) == Exists(dirs, path) /\ Canon(path) # Canon(config.REPOS_ROOT)

\* Request r is about to run cmd, in a cwd where git finds a working copy.
At(r, cmd) == pc[r] = "run" /\ Cmd(r).cmd = cmd /\ IsRepo(fs, ProjectRoot(r))

\* Every phase's CalledProcessError turned into a ValidationException.
ExceptionOfAnyPhase(phase) == "ValidationException"

\* validate_branch turns a CalledProcessError of its two commands into a
\* ValidationException; no other phase catches anything.
ExceptionOf(phase) ==
    IF phase = "validate" THEN "ValidationException" ELSE "CalledProcessError"

\* check=False: the exit status is ignored.
Unchecked(ok) == TRUE

\* run_subprocess: check=True raises on a non-zero exit.
Checked(ok) == ok

RedCard(branch_name) ==
    [color |-> "red", summary |-> <<>>,
     body |-> <<branch_name, "is not a valid branch choice.">>, fields |-> <<>>]

GreenCard(project_name, branch_name) ==
    [color |-> "green",
     summary |-> <<"I was able to complete the", project_name, "merge for you.">>,
     body |-> <<>>,
     fields |-> <<<<"Receiver Branch", "develop">>, <<"Giver Branch", branch_name>>>>]

\* merge's except clause: a ValidationException becomes the red card.
Raise(r, type, msg) ==
    /\ pc' = [pc EXCEPT ![r] = "done"]
    /\ exc' = [exc EXCEPT ![r] = [type |-> type, msg |-> msg]]
    /\ IF type = "ValidationException"
          THEN /\ outcome' = [outcome EXCEPT ![r] = "red"]
               /\ card' = [card EXCEPT ![r] = RedCard(args[r])]
          ELSE /\ outcome' = [outcome EXCEPT ![r] = "raised"]
               /\ card' = card
    /\ ip' = ip

FailureMessage(r, type) ==
    IF type = "ValidationException"
        THEN <<args[r], "is not a valid branch name.">>
        ELSE <<Cmd(r).cmd>>

\* The command at ip[r] has exited: go on, finish, or raise.
Return(r, ok) ==
    IF Checked(ok)
        THEN /\ exc' = exc
             /\ IF ip[r] < Len(Program)
                   THEN /\ ip' = [ip EXCEPT ![r] = @ + 1]
                        /\ UNCHANGED <<pc, outcome, card>>
                   ELSE /\ pc' = [pc EXCEPT ![r] = "done"]
                        /\ outcome' = [outcome EXCEPT ![r] = "green"]
                        /\ card' = [card EXCEPT ![r] = GreenCard(Lower(typedName[r]), args[r])]
                        /\ ip' = ip
        ELSE Raise(r, ExceptionOf(Cmd(r).phase),
                   FailureMessage(r, ExceptionOf(Cmd(r).phase)))

Changed ==
    (IF origin' # origin THEN {"origin"} ELSE {})
        \cup (IF commits' # commits THEN {"commits"} ELSE {})
        \cup (IF tracking' # tracking THEN {"tracking"} ELSE {})
        \cup (IF localDevelop' # localDevelop THEN {"localDevelop"} ELSE {})
        \cup (IF conflicted' # conflicted THEN {"conflicted"} ELSE {})

\* Bookkeeping of one invocation of run_subprocess by request r: the command and
\* its exit, what the command found (the branch on origin and its remote-tracking
\* ref; for amend and push the commit local develop was at; for delete whether
\* develop on origin contained the branch) and made (the commit it created).
Log(r, ok) ==
    /\ calls' = [calls EXCEPT ![r] =
                    Append(@, [cmd |-> Cmd(r).cmd, phase |-> Cmd(r).phase, ok |-> ok,
                               onOrigin |-> origin[args[r]] # NoCommit,
                               ref |-> tracking[args[r]] # NoCommit,
                               head |-> IF Cmd(r).cmd \in {"amend", "push"}
                                           THEN localDevelop ELSE NoCommit,
                               made |-> IF commits' # commits THEN Len(commits')
                                                               ELSE NoCommit,
                               merged |-> Cmd(r).cmd = "delete"
                                            /\ Contains(origin["develop"],
                                                        origin[args[r]])])]
    /\ touched' = [touched EXCEPT ![r] = @ \cup Changed]
    /\ UNCHANGED <<typedName, authorVars, provisionVars, configVars, envVars>>

-----------------------------------------------------------------------------
(* The merge command *)

\* merge(msg, project_name, branch_name) up to the first git command:
\* validate_branch's test of the forbidden branches.
MergeCommand(r, typed, branch_name) ==
    /\ pc[r] = "idle"
    /\ args' = [args EXCEPT ![r] = branch_name]
    /\ typedName' = [typedName EXCEPT ![r] = typed]
    /\ IF IsForbidden(branch_name)
          THEN /\ pc' = [pc EXCEPT ![r] = "done"]
               /\ exc' = [exc EXCEPT ![r] =
                            [type |-> "ValidationException",
                             msg |-> forbidden_branches
                                       \o <<"are forbidden choices for --branch-name.">>]]
               /\ outcome' = [outcome EXCEPT ![r] = "red"]
               /\ card' = [card EXCEPT ![r] = RedCard(branch_name)]
               /\ ip' = ip
          ELSE /\ pc' = [pc EXCEPT ![r] = "run"]
               /\ ip' = [ip EXCEPT ![r] = 1]
               /\ UNCHANGED <<exc, outcome, card>>
    /\ UNCHANGED <<repoVars, author, stdout, calls, touched>>
    /\ UNCHANGED <<authorVars, provisionVars, configVars, envVars>>

\* The merge command for the project of the configuration.
Merge(r, branch_name) == MergeCommand(r, config.projects[1].name, branch_name)

\* subprocess.run with a cwd that does not exist: FileNotFoundError before any
\* command runs; validate_branch catches CalledProcessError only.
NoCwd(r) ==
    /\ pc[r] = "run"
    /\ ~Exists(fs, ProjectRoot(r))
    /\ Raise(r, "FileNotFoundError", <<"cwd">>)
    /\ UNCHANGED <<repoVars, args, typedName, author, stdout, calls, touched>>
    /\ UNCHANGED <<authorVars, provisionVars, configVars, envVars>>

\* A git command in a cwd that exists and is no working copy exits non-zero.
NotARepository(r) ==
    /\ pc[r] = "run"
    /\ Exists(fs, ProjectRoot(r))
    /\ ~IsRepo(fs, ProjectRoot(r))
    /\ UNCHANGED <<repoVars, args, author, stdout>>
    /\ Return(r, FALSE)
    /\ Log(r, FALSE)

\* git fetch -p
Fetch(r) ==
    /\ At(r, "fetch")
    /\ \E ok \in BOOLEAN :
          /\ tracking' = IF ok THEN origin ELSE tracking
          /\ UNCHANGED <<origin, localDevelop, commits, conflicted, args, author, stdout>>
          /\ Return(r, ok)
          /\ Log(r, ok)

\* No test that the branch exists.
RevParseAlwaysOk(refs, branch_name) == TRUE

\* git rev-parse --verify origin/<branch_name>
RevParseOk(refs, branch_name) == refs[branch_name] # NoCommit

RevParse(r) ==
    /\ At(r, "rev-parse")
    /\ UNCHANGED <<repoVars, args, author, stdout>>
    /\ Return(r, RevParseOk(tracking, args[r]))
    /\ Log(r, RevParseOk(tracking, args[r]))

\* git for-each-ref ..., .stdout.strip(), the assertion, return author
ForEachRef(r) ==
    /\ At(r, "for-each-ref")
    /\ \E warning \in Warnings :
          LET out == ForEachRefStdout(tracking, commits, args[r], warning)
              res == git_get_branch_author(out)
          IN /\ stdout' = [stdout EXCEPT ![r] = out]
             /\ IF res.status = "returned"
                   THEN /\ author' = [author EXCEPT ![r] = res.value]
                        /\ Return(r, TRUE)
                   ELSE /\ author' = author
                        /\ Raise(r, res.status, <<>>)
    /\ UNCHANGED <<repoVars, args>>
    /\ Log(r, TRUE)

\* git checkout -B develop origin/develop
Checkout(r) ==
    /\ At(r, "checkout")
    /\ \E ok \in BOOLEAN :
          /\ ok => tracking["develop"] # NoCommit /\ ~conflicted
          /\ localDevelop' = IF ok THEN tracking["develop"] ELSE localDevelop
          /\ UNCHANGED <<origin, tracking, commits, conflicted, args, author, stdout>>
          /\ Return(r, ok)
          /\ Log(r, ok)

\* A merge that records the branch in no second parent (as --squash does).
MergeCommitOneParent(branch_name) ==
    [parents |-> <<localDevelop>>, author |-> Bot, merges |-> branch_name]

MergeCommit(branch_name) ==
    [parents |-> <<localDevelop, tracking[branch_name]>>, author |-> Bot,
     merges |-> branch_name]

\* git merge --no-ff -m 'Merge <branch> to develop' -m ... origin/<branch_name>
\* on the checked-out develop: "ok" exits 0 (with a merge commit, or with nothing to
\* do when develop already contains the branch), "conflict" and "error" exit non-zero.
GitMerge(r) ==
    /\ At(r, "merge")
    /\ \E res \in {"ok", "conflict", "error"} :
          LET able == tracking[args[r]] # NoCommit /\ localDevelop # NoCommit
                         /\ ~conflicted
              upToDate == able /\ Contains(localDevelop, tracking[args[r]])
          IN /\ res = "ok" => able
             /\ res = "conflict" => able /\ ~upToDate
             /\ IF res = "ok" /\ ~upToDate
                   THEN /\ commits' = Append(commits, MergeCommit(args[r]))
                        /\ localDevelop' = Len(commits) + 1
                   ELSE UNCHANGED <<commits, localDevelop>>
             /\ conflicted' = (conflicted \/ res = "conflict")
             /\ UNCHANGED <<origin, tracking, args, author, stdout>>
             /\ Return(r, res = "ok")
             /\ Log(r, res = "ok")

\* git commit --no-edit --amend --author=<author>
Amend(r) ==
    /\ At(r, "amend")
    /\ \E ok \in BOOLEAN :
          /\ ok => localDevelop # NoCommit /\ ~conflicted /\ IdentOf(author[r]) # NoIdent
          /\ IF ok
                THEN /\ commits' = Append(commits,
                            [commits[localDevelop] EXCEPT !.author = IdentOf(author[r])])
                     /\ localDevelop' = Len(commits) + 1
                ELSE UNCHANGED <<commits, localDevelop>>
          /\ UNCHANGED <<origin, tracking, conflicted, args, author, stdout>>
          /\ Return(r, ok)
          /\ Log(r, ok)

\* git push origin develop
Push(r) ==
    /\ At(r, "push")
    /\ \E ok \in BOOLEAN :
          /\ ok => /\ localDevelop # NoCommit
                   /\ origin["develop"] = NoCommit
                        \/ Contains(localDevelop, origin["develop"])
          /\ origin' = IF ok THEN [origin EXCEPT !["develop"] = localDevelop] ELSE origin
          /\ tracking' = IF ok THEN [tracking EXCEPT !["develop"] = localDevelop]
                               ELSE tracking
          /\ UNCHANGED <<localDevelop, commits, conflicted, args, author, stdout>>
          /\ Return(r, ok)
          /\ Log(r, ok)

\* git push origin --delete <branch_name>
Delete(r) ==
    /\ At(r, "delete")
    /\ \E ok \in BOOLEAN :
          /\ ok => origin[args[r]] # NoCommit
          /\ origin' = IF ok THEN [origin EXCEPT ![args[r]] = NoCommit] ELSE origin
          /\ tracking' = IF ok THEN [tracking EXCEPT ![args[r]] = NoCommit] ELSE tracking
          /\ UNCHANGED <<localDevelop, commits, conflicted, args, author, stdout>>
          /\ Return(r, ok)
          /\ Log(r, ok)

-----------------------------------------------------------------------------
(* Configurations *)

NoConfig == [REPOS_ROOT |-> <<>>, projects |-> <<>>]

UrlOf(repo) == <<"h", ":", "o", SEP>> \o repo \o <<"G">>

RepoNames == {<<"p">>, <<"Q">>}

\* projects: the project names in the order the loop takes them, each with its URL
ProjectLists ==
    {<<[name |-> n, url |-> UrlOf(u)]>> : n \in RepoNames \cup {<<"x">>}, u \in RepoNames}
      \cup {<<[name |-> <<"p">>, url |-> UrlOf(<<"p">>)],
             [name |-> <<"Q">>, url |-> UrlOf(<<"Q">>)]>>}

Roots == {<<SEP, "r", SEP>>, <<SEP, "r">>}

Configs == {[REPOS_ROOT |-> root, projects |-> ps] : root \in Roots, ps \in ProjectLists}

ProjectNames(cfg) == {cfg.projects[i].name : i \in DOMAIN cfg.projects}

-----------------------------------------------------------------------------
(* Merge.activate and Merge.setup_repos *)

\* How often the plugin is activated (the bot restarted, the plugin reloaded).
MaxRuns == 2

\* activate, up to the call of setup_repos
Activate ==
    /\ apc \in {"inactive", "activated", "failed"}
    /\ runs < MaxRuns
    /\ runs' = runs + 1
    /\ apc' = IF config = NoConfig THEN "inactive" ELSE "makedirs"
    /\ idx' = 1
    /\ ended' = IF config = NoConfig THEN Append(ended, "inactive") ELSE ended
    /\ UNCHANGED <<config, fs, cloneLog, mkdirLog, roots, repoVars, requestVars,
                   authorVars, configVars, envVars>>

\* Every OSError of os.makedirs raised again.
MakeDirsRaisesEvery(err) == err # ""

\* except OSError as exc: if exc.errno != errno.EEXIST: raise exc
\* (err is the errno of the OSError, "" when os.makedirs raised nothing)
MakeDirsRaises(err) == err # "" /\ err # "EEXIST"

\* os.makedirs(REPOS_ROOT): EEXIST is ignored, any other OSError is raised again
MakeDirs ==
    /\ apc = "makedirs"
    /\ \E err \in {"", "EEXIST", "EACCES"} :
          /\ err = "EEXIST" <=> Exists(fs, config.REPOS_ROOT)
          /\ fs' = IF err = "" THEN fs \cup {Canon(config.REPOS_ROOT)} ELSE fs
          /\ mkdirLog' = Append(mkdirLog, [run |-> runs, err |-> err])
          /\ apc' = IF ~MakeDirsRaises(err)
                       THEN (IF config.projects = <<>> THEN "super" ELSE "loop")
                       ELSE "failed"
          /\ ended' = IF MakeDirsRaises(err) THEN Append(ended, "failed") ELSE ended
    /\ UNCHANGED <<config, idx, runs, cloneLog, roots, repoVars, requestVars,
                   authorVars, configVars, envVars>>

\* git clone <url> with cwd=REPOS_ROOT exits zero only if it can create its directory
CloneOk(dirs, cwd, url) == Exists(dirs, cwd) /\ ~Exists(dirs, CloneTarget(cwd, url))

\* One turn of the loop over the projects: the test of the project's directory,
\* and the clone when it does not exist.
ProvisionProject ==
    /\ apc = "loop"
    /\ LET project == config.projects[idx]
           last == idx = Len(config.projects)
       IN IF ~Exists(fs, PathJoin(config.REPOS_ROOT, project.name))
             THEN \E ok \in BOOLEAN :
                    /\ ok => CloneOk(fs, config.REPOS_ROOT, project.url)
                    /\ cloneLog' = Append(cloneLog,
                                      [run |-> runs, name |-> project.name, ok |-> ok])
                    /\ fs' = IF ok THEN fs \cup {CloneTarget(config.REPOS_ROOT, project.url)}
                                   ELSE fs
                    /\ apc' = IF ~Checked(ok) THEN "failed"
                              ELSE IF last THEN "super" ELSE "loop"
                    /\ idx' = IF Checked(ok) /\ ~last THEN idx + 1 ELSE idx
                    /\ ended' = IF ~Checked(ok) THEN Append(ended, "failed") ELSE ended
             ELSE /\ apc' = IF last THEN "super" ELSE "loop"
                  /\ idx' = IF last THEN idx ELSE idx + 1
                  /\ UNCHANGED <<fs, cloneLog, ended>>
    /\ UNCHANGED <<config, runs, mkdirLog, roots, repoVars, requestVars,
                   authorVars, configVars, envVars>>

\* super().activate()
SuperActivate ==
    /\ apc = "super"
    /\ apc' = "activated"
    /\ ended' = Append(ended, "activated")
    /\ UNCHANGED <<config, fs, idx, runs, cloneLog, mkdirLog, roots, repoVars,
                   requestVars,
                   authorVars, configVars, envVars>>

\* merge --project-name <typed>: project_root = self.get_project_root(project_name)
MergeProjectRoot(typed) ==
    /\ apc = "activated"
    /\ LET project_name == Lower(typed)
       IN roots' = roots \cup
            {[typed |-> typed, root |-> get_project_root(config.REPOS_ROOT, project_name)]}
    /\ UNCHANGED <<config, fs, apc, idx, runs, cloneLog, mkdirLog, ended, repoVars,
                   requestVars,
                   authorVars, configVars, envVars>>

-----------------------------------------------------------------------------
(* Merge.check_configuration *)

\* Python values by their type: a string, an integer, a list of values, a dict of
\* keys and values (keys in insertion order).
StrValue == [t |-> "str", keys |-> <<>>, vals |-> <<>>]

IntValue == [t |-> "int", keys |-> <<>>, vals |-> <<>>]

List(vs) == [t |-> "list", keys |-> <<>>, vals |-> vs]

Dict(ks, vs) == [t |-> "dict", keys |-> ks, vals |-> vs]

\* key in d
Has(d, key) == \E i \in DOMAIN d.keys : d.keys[i] = key

\* d[key]
Get(d, key) == d.vals[CHOOSE i \in DOMAIN d.keys : d.keys[i] = key]

Without(seq, i) == SubSeq(seq, 1, i - 1) \o SubSeq(seq, i + 1, Len(seq))

\* d after d.pop(key)
Pop(d, key) ==
    LET i == CHOOSE j \in DOMAIN d.keys : d.keys[j] = key
    IN Dict(Without(d.keys, i), Without(d.vals, i))

\* d after d.update({key: value}), key not in d
Update(d, key, value) == Dict(Append(d.keys, key), Append(d.vals, value))

\* Merge.get_configuration_template
get_configuration_template ==
    Dict(<<"REPOS_ROOT", "forbidden_branches", "projects">>,
         <<StrValue, List(<<StrValue, StrValue>>), Dict(<<"some-project">>, <<StrValue>>)>>)

\* errbot.utils.recurse_check_structure(sample, to_check): TRUE when it raises
\* ValidationException. The types must be equal; the elements of a list are
\* checked against the first element of the sample; a dict must have the keys of
\* the sample and no other, and its values are checked against the sample's.
RECURSIVE recurse_check_structure(_, _)
recurse_check_structure(sample, to_check) ==
    IF sample.t # to_check.t THEN TRUE
    ELSE IF sample.t = "list"
        THEN \E i \in DOMAIN to_check.vals :
                recurse_check_structure(sample.vals[1], to_check.vals[i])
    ELSE IF sample.t = "dict"
        THEN \/ \E i \in DOMAIN sample.keys : ~Has(to_check, sample.keys[i])
             \/ \E i \in DOMAIN to_check.keys : ~Has(sample, to_check.keys[i])
             \/ \E i \in DOMAIN sample.keys :
                   recurse_check_structure(sample.vals[i], Get(to_check, sample.keys[i]))
    ELSE FALSE

NoVerdict == [status |-> "none", exc |-> ""]

Raised(type) == [status |-> "raised", exc |-> type]

\* check_configuration(configuration): how it ends, and the configuration as the
\* pop and the update leave it
check_configuration(cfg) ==
    IF ~Has(cfg, "projects")
        THEN [verdict |-> Raised("ValidationException"), configuration |-> cfg]
    ELSE LET config_template == Pop(get_configuration_template, "projects")
             projects_template == Get(get_configuration_template, "projects")
             projects_config == Get(cfg, "projects")
             rest == Pop(cfg, "projects")
         IN IF recurse_check_structure(config_template, rest)
                THEN [verdict |-> Raised("ValidationException"), configuration |-> rest]
            ELSE IF projects_config.t # "dict"
                THEN [verdict |-> Raised("AttributeError"), configuration |-> rest]
            ELSE IF \E i \in DOMAIN projects_config.vals :
                       recurse_check_structure(Get(projects_template, "some-project"),
                                               projects_config.vals[i])
                THEN [verdict |-> Raised("ValidationException"), configuration |-> rest]
            ELSE [verdict |-> [status |-> "returned", exc |-> ""],
                  configuration |-> Update(rest, "projects", projects_config)]

\* A key that the configuration does not have.
Absent == [t |-> "absent", keys |-> <<>>, vals |-> <<>>]

Entry(key, value) == IF value = Absent THEN <<>> ELSE <<[key |-> key, value |-> value]>>

DictOf(entries) ==
    Dict([i \in DOMAIN entries |-> entries[i].key], [i \in DOMAIN entries |-> entries[i].value])

\* The configurations an administrator may submit: each key of the template
\* absent, of the template's type or of another; the projects absent, not a
\* mapping, empty, or with one or two entries; an unknown key or none.
RootValues == {Absent, StrValue, IntValue}

ForbiddenValues ==
    {Absent, StrValue, List(<<>>), List(<<StrValue>>), List(<<StrValue, IntValue>>),
     List(<<IntValue>>)}

ProjectsValues ==
    {Absent, StrValue, List(<<StrValue>>), Dict(<<>>, <<>>), Dict(<<"p">>, <<StrValue>>),
     Dict(<<"p">>, <<IntValue>>), Dict(<<"p", "q">>, <<StrValue, StrValue>>),
     Dict(<<"p", "q">>, <<StrValue, IntValue>>),
     Dict(<<"p">>, <<Dict(<<"repo_url">>, <<StrValue>>)>>)}

Configurations ==
    {DictOf(Entry("REPOS_ROOT", root) \o Entry("forbidden_branches", fb)
              \o Entry("projects", pr) \o Entry("MERGE_FLAGS", other)) :
        root \in RootValues, fb \in ForbiddenValues, pr \in ProjectsValues,
        other \in {Absent, StrValue}}

NoCheck == given = Dict(<<>>, <<>>) /\ configuration = given /\ verdict = NoVerdict

NoEnvironment == envPushes = 0

CheckConfiguration ==
    /\ verdict = NoVerdict
    /\ verdict' = check_configuration(configuration).verdict
    /\ configuration' = check_configuration(configuration).configuration
    /\ UNCHANGED <<given, repoVars, requestVars, authorVars, provisionVars, envVars>>

-----------------------------------------------------------------------------
(* The states a provisioned project can be in when a request arrives *)

InitialCommits ==
    << [parents |-> <<>>, author |-> Dev, merges |-> ""],
       [parents |-> <<1>>, author |-> Alice, merges |-> ""],
       [parents |-> <<1>>, author |-> Carol, merges |-> ""] >>

\* develop and master, when on origin, are at the root commit; f is absent, already
\* contained in develop, or one commit ahead of it; g is absent or one commit ahead.
InitialRemotes ==
    {o \in [Branches -> 0..3] :
        /\ o["develop"] \in {NoCommit, 1}
        /\ o["master"] \in {NoCommit, 1}
        /\ o["f"] \in {NoCommit, 1, 2}
        /\ o["g"] \in {NoCommit, 3}}

\* The remote-tracking refs are those of the last fetch: the remote as it is, or as
\* it was when the project was cloned (f not yet ahead of develop, g not yet pushed).
ClonedRefs == [b \in Branches |-> IF b = "g" THEN NoCommit ELSE 1]

NoRequests ==
    /\ pc = [r \in Requests |-> "idle"]
    /\ ip = [r \in Requests |-> 0]
    /\ args = [r \in Requests |-> ""]
    /\ typedName = [r \in Requests |-> <<>>]
    /\ author = [r \in Requests |-> <<>>]
    /\ stdout = [r \in Requests |-> <<>>]
    /\ outcome = [r \in Requests |-> "none"]
    /\ card = [r \in Requests |-> NoCard]
    /\ exc = [r \in Requests |-> NoExc]
    /\ calls = [r \in Requests |-> <<>>]
    /\ touched = [r \in Requests |-> {}]

OneRepository ==
    /\ commits = InitialCommits
    /\ origin = [b \in Branches |-> IF b = "f" THEN 2 ELSE IF b = "g" THEN 3 ELSE 1]
    /\ tracking = origin
    /\ localDevelop = 1
    /\ conflicted = FALSE

NoAuthorQuery == raw = <<>> /\ parsed = NoResult

\* The project the merge requests of Spec are for: configured and cloned.
Provisioned ==
    /\ config = [REPOS_ROOT |-> <<SEP, "r", SEP>>,
                 projects |-> <<[name |-> <<"p">>, url |-> UrlOf(<<"p">>)]>>]
    /\ fs = {<<SEP, "r">>, <<SEP, "r", SEP, "p">>}
    /\ apc = "activated"
    /\ idx = 1
    /\ runs = 1
    /\ cloneLog = <<[run |-> 1, name |-> <<"p">>, ok |-> TRUE]>>
    /\ mkdirLog = <<[run |-> 1, err |-> ""]>>
    /\ ended = <<"activated">>
    /\ roots = {}

Init ==
    /\ commits = InitialCommits
    /\ origin \in InitialRemotes
    /\ tracking \in {origin, ClonedRefs}
    /\ localDevelop \in {NoCommit, 1}
    /\ conflicted = FALSE
    /\ NoRequests
    /\ NoAuthorQuery
    /\ Provisioned
    /\ NoCheck
    /\ NoEnvironment

Next ==
    \/ \E r \in Requests, b \in Branches : Merge(r, b)
    \/ \E r \in Requests : Fetch(r)
    \/ \E r \in Requests : RevParse(r)
    \/ \E r \in Requests : ForEachRef(r)
    \/ \E r \in Requests : Checkout(r)
    \/ \E r \in Requests : GitMerge(r)
    \/ \E r \in Requests : Amend(r)
    \/ \E r \in Requests : Push(r)
    \/ \E r \in Requests : Delete(r)

Spec == Init /\ [][Next]_vars

InitProvision ==
    /\ config \in Configs \cup {NoConfig}
    /\ fs \in {{}, {<<SEP, "r">>}}
    /\ apc = "inactive"
    /\ idx = 1
    /\ runs = 0
    /\ cloneLog = <<>>
    /\ mkdirLog = <<>>
    /\ ended = <<>>
    /\ roots = {}
    /\ OneRepository
    /\ NoRequests
    /\ NoAuthorQuery
    /\ NoCheck
    /\ NoEnvironment

NextProvision ==
    \/ Activate
    \/ MakeDirs
    \/ ProvisionProject
    \/ SuperActivate
    \/ \E typed \in ProjectNames(config) : MergeProjectRoot(typed)

SpecProvision == InitProvision /\ [][NextProvision]_vars

-----------------------------------------------------------------------------
(* git_get_branch_author on every output of the author query *)

\* The longest output tried.
MaxRawLen == 4

RawChars == {"a", SP, NL}

RawOutputs == UNION {[1..n -> RawChars] : n \in 0..MaxRawLen}

GetBranchAuthor ==
    /\ parsed = NoResult
    /\ parsed' = git_get_branch_author(raw)
    /\ UNCHANGED <<raw, repoVars, requestVars, provisionVars, configVars, envVars>>

InitAuthor ==
    /\ raw \in RawOutputs
    /\ parsed = NoResult
    /\ OneRepository
    /\ NoRequests
    /\ Provisioned
    /\ NoCheck
    /\ NoEnvironment

NextAuthor == GetBranchAuthor

SpecAuthor == InitAuthor /\ [][NextAuthor]_vars

-----------------------------------------------------------------------------
(* Merge requests one after the other, while other users push to the remote *)

\* How many commits the other users push.
MaxEnvPushes == 2

\* Another user pushes a new commit to a branch that is on origin.
EnvPush(b) ==
    /\ envPushes < MaxEnvPushes
    /\ origin[b] # NoCommit
    /\ commits' = Append(commits, [parents |-> <<origin[b]>>, author |-> Carol,
                                   merges |-> ""])
    /\ origin' = [origin EXCEPT ![b] = Len(commits')]
    /\ envPushes' = envPushes + 1
    /\ UNCHANGED <<tracking, localDevelop, conflicted, requestVars, authorVars,
                   provisionVars, configVars>>

\* A request that starts when no other request is running.
MergeInTurn(r, branch_name) ==
    /\ \A s \in Requests : pc[s] # "run"
    /\ Merge(r, branch_name)

InitEnv ==
    /\ commits = InitialCommits
    /\ origin \in InitialRemotes
    /\ tracking = origin
    /\ localDevelop = 1
    /\ conflicted = FALSE
    /\ NoRequests
    /\ NoAuthorQuery
    /\ Provisioned
    /\ NoCheck
    /\ NoEnvironment

NextEnv ==
    \/ \E r \in Requests, b \in Branches : MergeInTurn(r, b)
    \/ \E r \in Requests : Fetch(r)
    \/ \E r \in Requests : RevParse(r)
    \/ \E r \in Requests : ForEachRef(r)
    \/ \E r \in Requests : Checkout(r)
    \/ \E r \in Requests : GitMerge(r)
    \/ \E r \in Requests : Amend(r)
    \/ \E r \in Requests : Push(r)
    \/ \E r \in Requests : Delete(r)
    \/ \E b \in {"develop", "f", "g"} : EnvPush(b)

SpecEnv == InitEnv /\ [][NextEnv]_vars

-----------------------------------------------------------------------------
(* Merge requests for any project name *)

\* The values of --project-name: the configured names and others.
ProjectArgs == {<<"p">>, <<"x">>, <<"Q">>, <<>>, <<"p", SEP>>}

\* One project configured under the key name with the URL of repo, after an
\* activation that cloned it.
ProvisionedAs(name, repo) ==
    /\ config = [REPOS_ROOT |-> <<SEP, "r", SEP>>,
                 projects |-> <<[name |-> name, url |-> UrlOf(repo)]>>]
    /\ fs = {<<SEP, "r">>, CloneTarget(<<SEP, "r", SEP>>, UrlOf(repo))}
    /\ apc = "activated"
    /\ idx = 1
    /\ runs = 1
    /\ cloneLog = <<[run |-> 1, name |-> name, ok |-> TRUE]>>
    /\ mkdirLog = <<[run |-> 1, err |-> ""]>>
    /\ ended = <<"activated">>
    /\ roots = {}

InitProject ==
    /\ \/ ProvisionedAs(<<"p">>, <<"p">>)
       \/ ProvisionedAs(<<"x">>, <<"p">>)
       \/ ProvisionedAs(<<"Q">>, <<"Q">>)
    /\ OneRepository
    /\ NoRequests
    /\ NoAuthorQuery
    /\ NoCheck
    /\ NoEnvironment

NextProject ==
    \/ \E r \in Requests, typed \in ProjectArgs, b \in Branches : MergeCommand(r, typed, b)
    \/ \E r \in Requests : NoCwd(r)
    \/ \E r \in Requests : NotARepository(r)
    \/ \E r \in Requests : Fetch(r)
    \/ \E r \in Requests : RevParse(r)
    \/ \E r \in Requests : ForEachRef(r)
    \/ \E r \in Requests : Checkout(r)
    \/ \E r \in Requests : GitMerge(r)
    \/ \E r \in Requests : Amend(r)
    \/ \E r \in Requests : Push(r)
    \/ \E r \in Requests : Delete(r)

SpecProject == InitProject /\ [][NextProject]_vars

-----------------------------------------------------------------------------
(* check_configuration on every configuration submitted *)

InitConfig ==
    /\ given \in Configurations
    /\ configuration = given
    /\ verdict = NoVerdict
    /\ OneRepository
    /\ NoRequests
    /\ NoAuthorQuery
    /\ NoEnvironment
    /\ config = NoConfig
    /\ fs = {}
    /\ apc = "inactive"
    /\ idx = 1
    /\ runs = 0
    /\ cloneLog = <<>>
    /\ mkdirLog = <<>>
    /\ ended = <<>>
    /\ roots = {}

NextConfig == CheckConfiguration

SpecConfig == InitConfig /\ [][NextConfig]_vars

-----------------------------------------------------------------------------
(* What the requests did *)

CmdsOf(r) == [i \in DOMAIN calls[r] |-> calls[r][i].cmd]

IsMutating(cmd) == cmd \in Mutating

\* The mutating commands request r invoked, in order.
MutatingCalls(r) == SelectSeq(CmdsOf(r), IsMutating)

Started(r) == pc[r] # "idle"

Alone(r) == \A s \in Requests \ {r} : pc[s] = "idle"

\* The number of lines of a captured output, each ended by a newline.
LineCount(out) == Cardinality({i \in DOMAIN out : out[i] = NL})

LookedUp(r) == \E i \in DOMAIN calls[r] : calls[r][i].cmd = "for-each-ref"

\* validate_branch has returned or raised for a branch that is not forbidden.
ValidationOver(r) ==
    /\ Started(r) /\ ~(args[r] \in Range(forbidden_branches))
    /\ calls[r] # <<>>
    /\ ~calls[r][1].ok \/ Len(calls[r]) >= 2

OnOriginThroughValidation(r) ==
    \A k \in DOMAIN calls[r] : calls[r][k].phase = "validate" => calls[r][k].onOrigin

RefMissing(r) == Len(calls[r]) >= 2 /\ ~calls[r][2].ref

InvalidBranch(r) ==
    /\ outcome[r] = "red"
    /\ exc[r] = [type |-> "ValidationException",
                 msg |-> <<args[r], "is not a valid branch name.">>]

\* The lines of an output that hold more than whitespace.
NonBlankLines(out) ==
    Cardinality({i \in DOMAIN out :
        /\ out[i] \notin Whitespace
        /\ \A j \in 1..(i - 1) :
              out[j] \notin Whitespace => \E k \in (j + 1)..(i - 1) : out[k] = NL})

\* c is a merge commit of the branch, authored by the author of the branch's tip.
MergeOf(c, branch_name) ==
    /\ commits[c].merges = branch_name
    /\ Len(commits[c].parents) = 2
    /\ commits[c].author = commits[commits[c].parents[2]].author

\* The last command request r invoked exited non-zero.
FailedAt(r, phase, cmd) ==
    /\ pc[r] = "done" /\ calls[r] # <<>>
    /\ LET last == calls[r][Len(calls[r])]
       IN last.phase = phase /\ last.cmd = cmd /\ ~last.ok

\* c is a merge commit of the branch on top of develop as it is on origin.
MergeOnto(c, base, branch_name) ==
    /\ c # NoCommit
    /\ commits[c].merges = branch_name
    /\ Len(commits[c].parents) = 2
    /\ commits[c].parents[1] = base

\* The calls of request r in the merge phase, by command.
MergePhase(r, cmd) ==
    {k \in DOMAIN calls[r] : calls[r][k].phase = "merge" /\ calls[r][k].cmd = cmd}

\* Request r made a merge commit, but its amend rewrote another commit or its
\* push sent another commit than the one its amend made.
Disturbed(r) ==
    \E m \in MergePhase(r, "merge") :
        /\ calls[r][m].made # NoCommit
        /\ \/ \E a \in MergePhase(r, "amend") : calls[r][a].head # calls[r][m].made
           \/ \E a \in MergePhase(r, "amend") : \E p \in MergePhase(r, "push") :
                 calls[r][p].head # calls[r][a].made

\* The clones invoked, and the errors of os.makedirs, in one call of activate.
ClonesIn(run) == {j \in DOMAIN cloneLog : cloneLog[j].run = run}

MkdirErrors(run) == {mkdirLog[j].err : j \in {i \in DOMAIN mkdirLog : mkdirLog[i].run = run}}

\* The projects of the configuration submitted: none when there is no projects
\* key or the mapping is empty.
NoProjectGiven ==
    \/ ~Has(given, "projects")
    \/ Get(given, "projects") = Dict(<<>>, <<>>)

\* The project name of request r is no key of the configuration, neither as typed
\* nor as str.lower leaves it.
Unconfigured(r) ==
    /\ pc[r] # "idle"
    /\ typedName[r] \notin ProjectNames(config)
    /\ Lower(typedName[r]) \notin ProjectNames(config)

\* The clones invoked for a project.
ClonesOf(name) == {i \in DOMAIN cloneLog : cloneLog[i].name = name}

-----------------------------------------------------------------------------
(* C1: a request in which no git command fails invokes the mutating commands
   checkout, merge, amend, push, delete in this order, each exactly once. *)
C1_EachStepOnce ==
    \A r \in Requests :
        outcome[r] = "green" =>
            MutatingCalls(r) = <<"checkout", "merge", "amend", "push", "delete">>

(* C2: once a command of a request has exited non-zero, the request invokes no
   further command and does not answer with the green card. *)
C2_OrderedAbort ==
    \A r \in Requests : \A k \in DOMAIN calls[r] :
        ~calls[r][k].ok =>
            /\ k = Len(calls[r])
            /\ pc[r] = "done"
            /\ outcome[r] # "green"
            /\ card[r].color # "green"

C2_Witness ==
    \E r \in Requests :
        /\ Len(calls[r]) = 9
        /\ calls[r][9].cmd = "push" /\ ~calls[r][9].ok
        /\ \E s \in Requests \ {r} : outcome[s] = "green"

(* C3: a request naming a forbidden branch runs no git command and ends with the
   red card, whether or not the branch is on origin. *)
C3_ForbiddenBranch ==
    \A r \in Requests :
        Started(r) /\ args[r] \in Range(forbidden_branches) =>
            /\ calls[r] = <<>>
            /\ pc[r] = "done"
            /\ outcome[r] = "red"
            /\ card[r] = RedCard(args[r])
            /\ exc[r].type = "ValidationException"

C3_Witness ==
    \E r, s \in Requests :
        /\ outcome[r] = "red" /\ args[r] = "develop" /\ origin["develop"] # NoCommit
        /\ outcome[s] = "red" /\ args[s] = "master" /\ origin["master"] = NoCommit

(* C4, as stated: for a branch that is not forbidden, validate_branch raises
   ValidationException naming the branch when origin/<branch> does not exist
   after the fetch, and returns without error whenever the branch is on origin. *)
C4_RemoteExistenceGate ==
    \A r \in Requests :
        ValidationOver(r) =>
            /\ RefMissing(r) => InvalidBranch(r)
            /\ OnOriginThroughValidation(r) => outcome[r] # "red"

(* C4, amended: validate_branch raises ValidationException naming the branch
   exactly when the fetch exits non-zero or origin/<branch> does not exist after
   it; it returns without error whenever the fetch exits zero and the branch is on
   origin. *)
C4_RemoteExistenceGateAmended ==
    \A r \in Requests :
        ValidationOver(r) =>
            /\ InvalidBranch(r) <=> (~calls[r][1].ok \/ RefMissing(r))
            /\ outcome[r] = "red" => InvalidBranch(r)
            /\ calls[r][1].ok /\ OnOriginThroughValidation(r) => outcome[r] # "red"

C4_Witness ==
    \E r, s \in Requests :
        /\ ValidationOver(r) /\ calls[r][1].ok /\ RefMissing(r) /\ InvalidBranch(r)
        /\ ValidationOver(s) /\ OnOriginThroughValidation(s) /\ Len(calls[s]) > 2

(* C5: a request that ends in a validation failure has invoked none of checkout,
   merge, amend, push, delete, and its commands have changed neither local
   develop nor any branch on origin. *)
C5_ValidationFailureFrame ==
    \A r \in Requests :
        outcome[r] = "red" =>
            /\ MutatingCalls(r) = <<>>
            /\ touched[r] \subseteq {"tracking"}

C5_Witness ==
    \E r \in Requests :
        /\ outcome[r] = "red" /\ RefMissing(r)
        /\ touched[r] = {"tracking"}

(* C6: a request whose author lookup yields no line or more than one line ends
   there: it invokes none of checkout, merge, amend, push, delete, and its
   commands have changed nothing but the remote-tracking refs. *)
C6_AuthorFailureAborts ==
    \A r \in Requests :
        LookedUp(r) /\ LineCount(stdout[r]) # 1 =>
            /\ pc[r] = "done"
            /\ outcome[r] = "raised"
            /\ exc[r].type = "AssertionError"
            /\ MutatingCalls(r) = <<>>
            /\ touched[r] \subseteq {"tracking"}

\* No line: the other request has deleted the branch since r validated it.
C6_Witness ==
    \E r \in Requests :
        /\ LookedUp(r) /\ LineCount(stdout[r]) = 0
        /\ outcome[r] = "raised"

\* More than one line: git wrote a warning before the author's line.
C6_SeveralLines ==
    \E r \in Requests :
        /\ LookedUp(r) /\ LineCount(stdout[r]) > 1
        /\ outcome[r] = "raised"

(* C7: git_get_branch_author never returns a value that is empty or holds a
   newline, and it fails on every output that does not hold exactly one line of
   text (none, or several). *)
C7_AuthorFormat ==
    parsed # NoResult =>
        /\ parsed.status = "returned" =>
              parsed.value # <<>> /\ NL \notin Range(parsed.value)
        /\ NonBlankLines(raw) # 1 => parsed.status = "AssertionError"

C7_Witness ==
    /\ parsed.status = "AssertionError"
    /\ NonBlankLines(raw) = 2

(* C8: a request that runs alone answers with the green card only when develop on
   origin contains a merge commit of the requested branch, with two parents, whose
   author is the author of the branch's tip, and the branch is gone from origin. *)
C8_SuccessMeansMerged ==
    \A r \in Requests :
        outcome[r] = "green" /\ Alone(r) =>
            /\ origin["develop"] # NoCommit
            /\ \E c \in Ancestors(origin["develop"]) : MergeOf(c, args[r])
            /\ origin[args[r]] = NoCommit

C8_Witness ==
    \E r \in Requests :
        /\ outcome[r] = "green" /\ Alone(r)
        /\ MergeOf(origin["develop"], args[r])
        /\ commits[origin["develop"]].author = Alice

(* C9: when setup_repos has run twice, the first run without raising, each
   configured project has been cloned exactly once: the second run invokes no clone
   and does not raise. *)
C9_IdempotentProvisioning ==
    Len(ended) >= 2 /\ ended[1] = "activated" =>
        /\ ended[2] = "activated"
        /\ \A i \in DOMAIN cloneLog : cloneLog[i].run = 1
        /\ \A name \in ProjectNames(config) : Cardinality(ClonesOf(name)) = 1

(* C10: the project root merge computes for a configured project is the directory
   REPOS_ROOT/name whose existence setup_repos tests, whether or not REPOS_ROOT ends
   with a separator. *)
C10_ProjectRootIsProvisioned ==
    \A e \in roots :
        Canon(e.root) = Canon(PathJoin(config.REPOS_ROOT, e.typed))

(* C11: the merge command answers with the red card naming the branch exactly when
   validate_branch raised ValidationException; with the green card, Receiver Branch
   develop and Giver Branch the requested branch, exactly when every command of
   every phase exited zero; a failure of the author lookup or of a later command
   is raised to the caller and no card is sent. *)
C11_OutcomeMapping ==
    \A r \in Requests :
        pc[r] = "done" =>
            /\ exc[r].type = "ValidationException"
                  <=> /\ card[r].color = "red"
                      /\ card[r].body = <<args[r], "is not a valid branch choice.">>
            /\ exc[r].type = "ValidationException"
                  <=> \/ args[r] \in Range(forbidden_branches)
                      \/ \E k \in DOMAIN calls[r] :
                            calls[r][k].phase = "validate" /\ ~calls[r][k].ok
            /\ (Len(calls[r]) = Len(Program) /\ \A k \in DOMAIN calls[r] : calls[r][k].ok)
                  <=> /\ card[r].color = "green"
                      /\ card[r].fields = << <<"Receiver Branch", "develop">>,
                                             <<"Giver Branch", args[r]>> >>
            /\ (\/ exc[r].type = "AssertionError"
                \/ \E k \in DOMAIN calls[r] :
                      calls[r][k].phase # "validate" /\ ~calls[r][k].ok)
                  <=> exc[r].type \in {"AssertionError", "CalledProcessError"}
                        /\ card[r] = NoCard /\ outcome[r] = "raised"

C11_Witness ==
    \E r, s \in Requests :
        /\ card[r].color = "green"
        /\ pc[s] = "done" /\ exc[s].type = "CalledProcessError" /\ card[s] = NoCard

(* C12: the commit an amend rewrites is the merge commit that the merge of the
   same request has just created, never a commit that was on develop before. *)
C12_AmendRewritesOwnMerge ==
    \A r \in Requests : \A k \in DOMAIN calls[r] :
        calls[r][k].cmd = "amend" /\ calls[r][k].ok =>
            /\ k > 1 /\ calls[r][k - 1].cmd = "merge"
            /\ calls[r][k - 1].made # NoCommit
            /\ calls[r][k].head = calls[r][k - 1].made

(* C13: nothing is undone when a command fails. For a request that runs alone:
   after a failed push, local develop still holds what checkout, merge and amend
   left (the merge commit on top of origin's develop, when the merge made one),
   and develop and the branch on origin are untouched; after a failed delete,
   develop on origin is the merge commit and the branch is still on origin. In
   every case the failed command is the last one the request invokes. *)
C13_NoRollback ==
    \A r \in Requests :
        /\ \A k \in DOMAIN calls[r] : ~calls[r][k].ok => k = Len(calls[r])
        /\ Alone(r) /\ FailedAt(r, "merge", "push") =>
              LET n == Len(calls[r])
              IN /\ calls[r][n - 1].cmd = "amend"
                 /\ localDevelop = calls[r][n - 1].made
                 /\ localDevelop # NoCommit
                 /\ calls[r][n - 2].made # NoCommit =>
                        MergeOnto(localDevelop, origin["develop"], args[r])
                 /\ "origin" \notin touched[r]
                 /\ origin[args[r]] # NoCommit
                 /\ origin["develop"] # localDevelop
        /\ Alone(r) /\ FailedAt(r, "delete", "delete") =>
              /\ origin["develop"] = localDevelop
              /\ MergeOf(origin["develop"], args[r])
              /\ origin[args[r]] # NoCommit

C13_Witness ==
    \E r \in Requests :
        /\ Alone(r) /\ FailedAt(r, "merge", "push")
        /\ MergeOnto(localDevelop, origin["develop"], args[r])
        /\ origin[args[r]] = 2

\* A failed delete: the merge is on origin and so is the branch.
C13_FailedDelete ==
    \E r \in Requests :
        /\ Alone(r) /\ FailedAt(r, "delete", "delete")
        /\ MergeOf(origin["develop"], args[r])

(* C14: two requests interleave on the one working copy. Whenever a request's
   merge commit is not the commit its amend rewrites or its push sends, another
   request has run its checkout on the working copy in the meantime; a request
   running alone is never disturbed. The witness is the interleaving the claim
   names: the other request's checkout resets develop between the merge and
   the push. *)
C14_DisturbedOnlyByOtherRequest ==
    \A r \in Requests :
        Disturbed(r) =>
            /\ ~Alone(r)
            /\ \E s \in Requests \ {r} : \E k \in MergePhase(s, "checkout") :
                  calls[s][k].ok

C14_Witness ==
    \E r \in Requests : \E s \in Requests \ {r} :
        /\ \E m \in MergePhase(r, "merge") : \E a \in MergePhase(r, "amend") :
           \E p \in MergePhase(r, "push") :
              /\ calls[r][m].made # NoCommit
              /\ calls[r][a].head = calls[r][m].made
              /\ calls[r][p].head # calls[r][a].made
              /\ calls[r][p].head = tracking["develop"]
              /\ calls[r][p].ok
              /\ ~Contains(origin["develop"], calls[r][a].made)
        /\ pc[s] = "run" /\ calls[s] # <<>>
        /\ calls[s][Len(calls[s])].cmd = "checkout" /\ calls[s][Len(calls[s])].ok

(* C15: a failure of provisioning is fatal to activate. When os.makedirs fails
   for another reason than EEXIST, activate raises before any clone; when a
   clone fails, activate raises and clones no project after it; in both cases
   the plugin is not activated. When the root exists already (EEXIST) and no
   clone fails, activate completes. *)
C15_ProvisioningFailureIsFatal ==
    /\ \A j \in DOMAIN mkdirLog :
          LET run == mkdirLog[j].run
          IN /\ mkdirLog[j].err \notin {"", "EEXIST"} =>
                   /\ run \in DOMAIN ended /\ ended[run] = "failed"
                   /\ ClonesIn(run) = {}
                   /\ run = runs => apc = "failed"
             /\ (/\ mkdirLog[j].err = "EEXIST"
                 /\ run \in DOMAIN ended
                 /\ \A k \in ClonesIn(run) : cloneLog[k].ok) => ended[run] = "activated"
    /\ \A j \in DOMAIN cloneLog :
          LET run == cloneLog[j].run
          IN ~cloneLog[j].ok =>
                /\ run \in DOMAIN ended /\ ended[run] = "failed"
                /\ \A k \in ClonesIn(run) : k <= j
                /\ run = runs => apc = "failed"

C15_Witness ==
    /\ Len(config.projects) = 2
    /\ runs = 2 /\ apc = "failed"
    /\ MkdirErrors(1) = {"EACCES"}
    /\ \E j \in ClonesIn(2) : cloneLog[j].name = config.projects[1].name /\ ~cloneLog[j].ok
    /\ ~Exists(fs, PathJoin(config.REPOS_ROOT, config.projects[2].name))

\* An existing root does not stop the activation.
C15_ExistingRoot ==
    /\ runs = 1 /\ apc = "activated"
    /\ MkdirErrors(1) = {"EEXIST"}

(* C16: check_configuration raises ValidationException for every configuration
   without a projects key or with an empty projects mapping, and it returns
   only for configurations with at least one project. *)
C16_AtLeastOneProject ==
    verdict # NoVerdict =>
        /\ NoProjectGiven => verdict = Raised("ValidationException")
        /\ verdict.status = "returned" =>
              /\ Has(given, "projects")
              /\ Get(given, "projects").t = "dict"
              /\ Get(given, "projects").keys # <<>>

\* What the code does: a configuration without the projects key is refused, one
\* with the keys of the template and an empty projects mapping is accepted.
C16_EmptyProjectsAccepted ==
    /\ verdict.status = "returned"
    /\ Get(given, "projects") = Dict(<<>>, <<>>)
    /\ configuration = Update(Pop(given, "projects"), "projects", Dict(<<>>, <<>>))

C16_MissingKeyRefused ==
    verdict # NoVerdict /\ ~Has(given, "projects") => verdict = Raised("ValidationException")

(* C17: no lost work. With requests one after the other and other users
   pushing to origin between the steps, a request deletes a branch from origin
   only when develop on origin contains the commit the branch is at when it is
   deleted. *)
C17_NoLostWork ==
    \A r \in Requests : \A k \in DOMAIN calls[r] :
        calls[r][k].cmd = "delete" /\ calls[r][k].ok => calls[r][k].merged

\* Without the other users' pushes the deleted branch is always merged: the
\* requests of SpecEnv never overlap.
C17_NoOverlap ==
    Cardinality({r \in Requests : pc[r] = "run"}) <= 1

(* C18: a request for a project name that is not in the configuration, with a
   branch that is not forbidden, changes no state of any repository and never
   answers with the green card: it ends with the red card or with an exception
   that propagates. *)
C18_UnconfiguredProject ==
    \A r \in Requests :
        Unconfigured(r) /\ args[r] \notin Range(forbidden_branches) =>
            /\ touched[r] = {}
            /\ outcome[r] # "green"
            /\ pc[r] = "done" => outcome[r] \in {"red", "raised"}

\* Where the project root is no working copy the request does end so: with
\* FileNotFoundError when the directory is missing, with the red card when git
\* finds no repository in it.
C18_NoCloneNoChange ==
    \A r \in Requests :
        pc[r] # "idle" /\ args[r] \notin Range(forbidden_branches)
          /\ ~IsRepo(fs, ProjectRoot(r)) =>
            /\ touched[r] = {}
            /\ \A k \in DOMAIN calls[r] : ~calls[r][k].ok
            /\ pc[r] = "done" =>
                  IF Exists(fs, ProjectRoot(r))
                      THEN outcome[r] = "red" /\ Len(calls[r]) = 1
                      ELSE exc[r].type = "FileNotFoundError" /\ calls[r] = <<>>
                             /\ outcome[r] = "raised"

\* A name that is no key of the configuration and yet leads to a working copy:
\* the request merges, pushes, deletes and answers with the green card.
C18_UnconfiguredMerged ==
    \E r \in Requests :
        /\ Unconfigured(r)
        /\ outcome[r] = "green"
        /\ {"origin", "localDevelop"} \subseteq touched[r]

====
